---- MODULE Spec2Model ----
(***************************************************************************)
(* Model of rspec (src/src/lib.rs): the registration Context               *)
(* (describe / it / before), the Runner (run / result) and the TestReport. *)
(*                                                                         *)
(* A registered closure is opaque to the library: the model identifies it  *)
(* by the number of the registration call that pushed it, and draws what   *)
(* it does (return Ok, return Err, panic) when the runner invokes it.      *)
(***************************************************************************)
EXTENDS Integers, Sequences, FiniteSets, TLC

\* ---- bounds of the model ----
MaxTests  == 2   \* at most this many Context::it calls
MaxHooks  == 2   \* at most this many Context::before calls
MaxGroups == 2   \* at most this many Context::describe calls
MaxRuns   == 2   \* at most this many Runner::run calls
MaxCalls  == 4   \* at most this many describe, it and before calls in all

VARIABLES
    pc,           \* position of the single thread of control
    tests,        \* Context.tests        : closures in push order
    before_each,  \* Context.before_each  : closures in push order
    stack,        \* nested Context::describe bodies being executed
    nGroups,      \* number of Context::describe calls made so far
    site,         \* site[k]: group nesting at which closure k was registered
    self_report,  \* Runner.report : Option<Result<TestReport, TestReport>>
    report,       \* run(): local `report`
    result,       \* run(): local `result`
    i,            \* run(): position of describe.tests.iter_mut()
    j,            \* run(): position of before_functions.iter_mut()
    res,          \* run(): what catch_unwind returned for the current case
    trace,        \* closures invoked by the current run, in order
    run_ret,      \* what the last completed run() returned
    runs,         \* number of run() calls started
    observed,     \* what result() returned to the caller since the last run()
    prev,         \* history: report and verdicts of the run before the current one
    calls         \* history: the it and before calls made, in textual order

vars == <<pc, tests, before_each, stack, nGroups, site, self_report, report,
          result, i, j, res, trace, run_ret, runs, observed, prev, calls>>

regVars == <<tests, before_each, stack, nGroups, site, calls>>
runVars == <<report, result, i, j, res, trace>>

\* Option<T>: None is the empty sequence, Some(x) the sequence of x alone
None == << >>
Some(x) == << x >>

\* TestReport::default()
TestReportDefault == [total_tests |-> 0, success_count |-> 0, error_count |-> 0]

\* what a test closure can do when called: FnMut() -> TestResult
TestOutcomes == {"Ok", "Err", "Panic"}
\* what a before closure can do when called: FnMut() -> ()
HookOutcomes == {"Return", "Panic"}

Init ==
    /\ pc = "registering"
    /\ tests = << >>
    /\ before_each = << >>
    /\ stack = << >>
    /\ nGroups = 0
    /\ site = << >>
    /\ self_report = None
    /\ report = TestReportDefault
    /\ result = "Ok"
    /\ i = 0
    /\ j = 0
    /\ res = "none"
    /\ trace = << >>
    /\ run_ret = "none"
    /\ runs = 0
    /\ observed = None
    /\ prev = None
    /\ calls = << >>

\* ---- registration: Context::describe / it / before, describe ----

\* the body of a group is given a scope whose hook list starts empty
ContextDescribeOwnHooks ==
    /\ pc = "registering"
    /\ nGroups < MaxGroups
    /\ Len(calls) + nGroups < MaxCalls
    /\ nGroups' = nGroups + 1
    /\ stack' = Append(stack, nGroups + 1)
    /\ before_each' = << >>
    /\ UNCHANGED <<pc, tests, site, self_report, runVars,
                   run_ret, runs, observed, prev, calls>>

\* Context::describe: body(self) is entered with the same Context
ContextDescribe ==
    /\ pc = "registering"
    /\ nGroups < MaxGroups
    /\ Len(calls) + nGroups < MaxCalls
    /\ nGroups' = nGroups + 1
    /\ stack' = Append(stack, nGroups + 1)
    /\ UNCHANGED <<pc, tests, before_each, site, self_report, runVars,
                   run_ret, runs, observed, prev, calls>>

\* Context::describe: body(self) returns
ContextDescribeReturn ==
    /\ pc = "registering"
    /\ Len(stack) > 0
    /\ stack' = SubSeq(stack, 1, Len(stack) - 1)
    /\ UNCHANGED <<pc, tests, before_each, nGroups, site, self_report,
                   runVars, run_ret, runs, observed, prev, calls>>

\* the test body is called once when it is registered
ContextItCallsBody ==
    /\ pc = "registering"
    /\ Len(tests) < MaxTests
    /\ Len(calls) + nGroups < MaxCalls
    /\ tests' = Append(tests, Len(site) + 1)
    /\ site' = Append(site, stack)
    /\ calls' = Append(calls, "it")
    /\ \E out \in TestOutcomes :
         trace' = Append(trace, [kind |-> "it", fn |-> Len(site) + 1,
                                 case |-> 0, out |-> out])
    /\ UNCHANGED <<pc, before_each, stack, nGroups, self_report, report,
                   result, i, j, res, run_ret, runs, observed, prev>>

\* Context::it: self.tests.push(Box::new(body))
ContextIt ==
    /\ pc = "registering"
    /\ Len(tests) < MaxTests
    /\ Len(calls) + nGroups < MaxCalls
    /\ tests' = Append(tests, Len(site) + 1)
    /\ site' = Append(site, stack)
    /\ calls' = Append(calls, "it")
    /\ UNCHANGED <<pc, before_each, stack, nGroups, self_report, runVars,
                   run_ret, runs, observed, prev>>

\* Context::before: self.before_each.push(Box::new(body))
ContextBefore ==
    /\ pc = "registering"
    /\ Len(before_each) < MaxHooks
    /\ Len(calls) + nGroups < MaxCalls
    /\ before_each' = Append(before_each, Len(site) + 1)
    /\ site' = Append(site, stack)
    /\ calls' = Append(calls, "before")
    /\ UNCHANGED <<pc, tests, stack, nGroups, self_report, runVars,
                   run_ret, runs, observed, prev>>

\* describe: the root body has returned; Runner { describe: c, report: None }
DescribeReturn ==
    /\ pc = "registering"
    /\ stack = << >>
    /\ pc' = "idle"
    /\ self_report' = None
    /\ UNCHANGED <<regVars, runVars, run_ret, runs, observed, prev>>

\* ---- Runner::run ----

\* history: Pass or Fail of every case of the run recorded in trace; a case
\* fails when its test returned Err or one of its closures panicked
Verdicts ==
    [k \in 1..Len(tests) |->
        IF \E n \in DOMAIN trace :
              trace[n].case = k /\ trace[n].out \in {"Err", "Panic"}
          THEN "Fail" ELSE "Pass"]

\* the counters of the previous run are carried into the next one
RunStartKeepsCounters ==
    /\ pc = "idle"
    /\ runs < MaxRuns
    /\ runs' = runs + 1
    /\ report' = report
    /\ result' = "Ok"
    /\ i' = 1
    /\ j' = 0
    /\ res' = "none"
    /\ trace' = << >>
    /\ run_ret' = "none"
    /\ pc' = "iter"
    /\ observed' = None
    /\ prev' = IF self_report = None
                 THEN None
                 ELSE Some([report |-> self_report[1], verdicts |-> Verdicts])
    /\ UNCHANGED <<regVars, self_report>>

\* lines 57-61: fresh report and result, iterator at the first test
RunStart ==
    /\ pc = "idle"
    /\ runs < MaxRuns
    /\ runs' = runs + 1
    /\ report' = TestReportDefault
    /\ result' = "Ok"
    /\ i' = 1
    /\ j' = 0
    /\ res' = "none"
    /\ trace' = << >>
    /\ run_ret' = "none"
    /\ pc' = "iter"
    /\ observed' = None
    /\ prev' = IF self_report = None
                 THEN None
                 ELSE Some([report |-> self_report[1], verdicts |-> Verdicts])
    /\ UNCHANGED <<regVars, self_report>>

\* the before functions are iterated once, not once per test
RunIterHooksOnce ==
    /\ pc = "iter"
    /\ IF i <= Len(tests)
         THEN pc' = "closure" /\ j' = IF i = 1 THEN 1 ELSE Len(before_each) + 1
         ELSE pc' = "store" /\ j' = 0
    /\ UNCHANGED <<regVars, self_report, report, result, i, res, trace,
                   run_ret, runs, observed, prev>>

\* line 62: describe.tests.iter_mut() yields the next test or ends the loop
RunIter ==
    /\ pc = "iter"
    /\ IF i <= Len(tests)
         THEN pc' = "closure" /\ j' = 1
         ELSE pc' = "store" /\ j' = 0
    /\ UNCHANGED <<regVars, self_report, report, result, i, res, trace,
                   run_ret, runs, observed, prev>>

\* p is an initial part of q
IsPrefix(p, q) == Len(p) <= Len(q) /\ SubSeq(q, 1, Len(p)) = p

\* a before function is called only for the tests of its own group
RunBeforeScoped ==
    /\ pc = "closure"
    /\ j <= Len(before_each)
    /\ IF IsPrefix(site[before_each[j]], site[tests[i]])
         THEN \E out \in HookOutcomes :
                /\ trace' = Append(trace, [kind |-> "before",
                                           fn |-> before_each[j],
                                           case |-> i, out |-> out])
                /\ IF out = "Panic"
                     THEN res' = "Panic" /\ pc' = "catch" /\ j' = 0
                     ELSE res' = res /\ pc' = pc /\ j' = j + 1
         ELSE trace' = trace /\ res' = res /\ pc' = pc /\ j' = j + 1
    /\ UNCHANGED <<regVars, self_report, report, result, i, run_ret, runs,
                   observed, prev>>

\* each before function is guarded on its own: after a panic the loop goes on
RunBeforePanicGoesOn ==
    /\ pc = "closure"
    /\ j <= Len(before_each)
    /\ \E out \in HookOutcomes :
         trace' = Append(trace, [kind |-> "before", fn |-> before_each[j],
                                 case |-> i, out |-> out])
    /\ j' = j + 1
    /\ UNCHANGED <<regVars, self_report, report, result, i, res, pc, run_ret,
                   runs, observed, prev>>

\* lines 65-67: the next before function is called inside catch_unwind
RunBefore ==
    /\ pc = "closure"
    /\ j <= Len(before_each)
    /\ \E out \in HookOutcomes :
         /\ trace' = Append(trace, [kind |-> "before", fn |-> before_each[j],
                                    case |-> i, out |-> out])
         /\ IF out = "Panic"
              THEN res' = "Panic" /\ pc' = "catch" /\ j' = 0
              ELSE res' = res /\ pc' = pc /\ j' = j + 1
    /\ UNCHANGED <<regVars, self_report, report, result, i, run_ret, runs,
                   observed, prev>>

\* calls of the test of case k recorded so far
TestCallsSoFar(k) ==
    Cardinality({n \in DOMAIN trace :
                   trace[n].kind = "it" /\ trace[n].case = k})

\* the test function is called without the iterator moving past it
RunTestTwice ==
    /\ pc = "closure"
    /\ j > Len(before_each)
    /\ \E out \in TestOutcomes :
         /\ trace' = Append(trace, [kind |-> "it", fn |-> tests[i],
                                    case |-> i, out |-> out])
         /\ res' = out
         /\ pc' = IF out = "Ok" /\ TestCallsSoFar(i) = 0 THEN pc ELSE "catch"
    /\ j' = IF pc' = "catch" THEN 0 ELSE j
    /\ UNCHANGED <<regVars, self_report, report, result, i, run_ret, runs,
                   observed, prev>>

\* the test function is called without waiting for the before loop to end
RunTestEarly ==
    /\ pc = "closure"
    /\ j >= 1
    /\ \E out \in TestOutcomes :
         /\ trace' = Append(trace, [kind |-> "it", fn |-> tests[i],
                                    case |-> i, out |-> out])
         /\ res' = out
    /\ pc' = "catch"
    /\ j' = 0
    /\ UNCHANGED <<regVars, self_report, report, result, i, run_ret, runs,
                   observed, prev>>

\* line 68: the test function is called once the before loop has ended
RunTest ==
    /\ pc = "closure"
    /\ j > Len(before_each)
    /\ \E out \in TestOutcomes :
         /\ trace' = Append(trace, [kind |-> "it", fn |-> tests[i],
                                    case |-> i, out |-> out])
         /\ res' = out
    /\ pc' = "catch"
    /\ j' = 0
    /\ UNCHANGED <<regVars, self_report, report, result, i, run_ret, runs,
                   observed, prev>>

\* the match arm Ok(res) => res written as Ok(_) => Err(())
MatchResAlwaysErr(r) == "Err"

\* lines 71-74: match res { Ok(res) => res, _ => Err(()) }
MatchRes(r) == IF r \in {"Ok", "Err"} THEN r ELSE "Err"

\* the counters follow each case's own outcome instead of the accumulator
AccumulateOwnOutcome(old, rep, r) ==
    IF r = "Ok"
      THEN [result |-> old,
            report |-> [rep EXCEPT !.success_count = rep.success_count + 1]]
      ELSE [result |-> r,
            report |-> [rep EXCEPT !.error_count = rep.error_count + 1]]

\* the accumulated result is replaced by the outcome of the latest case
AccumulateLatestWins(old, rep, r) ==
    IF old = "Ok"
      THEN [result |-> r,
            report |-> [rep EXCEPT !.success_count = rep.success_count + 1]]
      ELSE [result |-> r,
            report |-> [rep EXCEPT !.error_count = rep.error_count + 1]]

\* lines 76-79: the match on the accumulated result
Accumulate(old, rep, r) ==
    IF old = "Ok"
      THEN [result |-> r,
            report |-> [rep EXCEPT !.success_count = rep.success_count + 1]]
      ELSE [result |-> old,
            report |-> [rep EXCEPT !.error_count = rep.error_count + 1]]

\* the loop is left at the first failing case
RunAggregateStopsAtFailure ==
    /\ pc = "catch"
    /\ LET acc == Accumulate(result, report, MatchRes(res))
       IN /\ result' = acc.result
          /\ report' = [acc.report EXCEPT
                           !.total_tests = acc.report.total_tests + 1]
          /\ pc' = IF acc.result = "Ok" THEN "iter" ELSE "store"
    /\ i' = i + 1
    /\ res' = "none"
    /\ UNCHANGED <<regVars, self_report, j, trace, run_ret, runs, observed, prev>>

\* total_tests is left alone for a case that did not pass
RunAggregateTotalOnPass ==
    /\ pc = "catch"
    /\ LET acc == Accumulate(result, report, MatchRes(res))
       IN /\ result' = acc.result
          /\ report' = IF MatchRes(res) = "Ok"
                         THEN [acc.report EXCEPT
                                 !.total_tests = acc.report.total_tests + 1]
                         ELSE acc.report
    /\ i' = i + 1
    /\ res' = "none"
    /\ pc' = "iter"
    /\ UNCHANGED <<regVars, self_report, j, trace, run_ret, runs, observed, prev>>

\* lines 71-82: the case's result is folded into result and report
RunAggregate ==
    /\ pc = "catch"
    /\ LET acc == Accumulate(result, report, MatchRes(res))
       IN /\ result' = acc.result
          /\ report' = [acc.report EXCEPT
                           !.total_tests = acc.report.total_tests + 1]
    /\ i' = i + 1
    /\ res' = "none"
    /\ pc' = "iter"
    /\ UNCHANGED <<regVars, self_report, j, trace, run_ret, runs, observed, prev>>

\* a run that counted no test is stored as a failure
StoredReportEmptyIsErr(r, rep) ==
    IF r = "Ok" /\ rep.total_tests > 0
      THEN [status |-> "Ok", report |-> rep]
      ELSE [status |-> "Err", report |-> rep]

\* lines 84-88: Some(Ok(report)) or Some(Err(report))
StoredReport(r, rep) ==
    IF r = "Ok" THEN [status |-> "Ok", report |-> rep]
                ELSE [status |-> "Err", report |-> rep]

\* run returns the accumulated result instead of Ok(())
RunStoreReturnsResult ==
    /\ pc = "store"
    /\ self_report' = Some(StoredReport(result, report))
    /\ run_ret' = result
    /\ pc' = "idle"
    /\ i' = 0
    /\ UNCHANGED <<regVars, report, result, j, res, trace, runs, observed, prev>>

\* the tests are drained from the Context by the run
RunStoreDrainsTests ==
    /\ pc = "store"
    /\ self_report' = Some(StoredReport(result, report))
    /\ run_ret' = "Ok"
    /\ pc' = "idle"
    /\ i' = 0
    /\ tests' = << >>
    /\ UNCHANGED <<before_each, stack, nGroups, site, calls, report, result,
                   j, res, trace, runs, observed, prev>>

\* lines 84-90: self.report is overwritten and run returns Ok(())
RunStore ==
    /\ pc = "store"
    /\ self_report' = Some(StoredReport(result, report))
    /\ run_ret' = "Ok"
    /\ pc' = "idle"
    /\ i' = 0
    /\ UNCHANGED <<regVars, report, result, j, res, trace, runs, observed, prev>>

\* ---- Runner::result ----

\* a missing report is read as a failed run
RunnerResultDefaultErr(r) ==
    IF r = None THEN [status |-> "Err", report |-> TestReportDefault] ELSE r[1]

\* self.report.unwrap_or(Ok(TestReport::default()))
RunnerResult(r) ==
    IF r = None THEN [status |-> "Ok", report |-> TestReportDefault] ELSE r[1]

\* the caller reads the report; the Runner is borrowed immutably
Result ==
    /\ pc = "idle"
    /\ observed' = Some(RunnerResult(self_report))
    /\ UNCHANGED <<pc, regVars, self_report, runVars, run_ret, runs, prev>>

Next ==
    \/ ContextDescribe
    \/ ContextDescribeReturn
    \/ ContextIt
    \/ ContextBefore
    \/ DescribeReturn
    \/ RunStart
    \/ RunIter
    \/ RunBefore
    \/ RunTest
    \/ RunAggregate
    \/ RunStore
    \/ Result

Spec == Init /\ [][Next]_vars

TypeOK ==
    /\ pc \in {"registering", "idle", "iter", "closure", "catch", "store"}
    /\ Len(tests) <= MaxTests
    /\ Len(before_each) <= MaxHooks
    /\ runs \in 0..MaxRuns
\* ---- vocabulary of the properties ----

\* a run() call has returned and no other is in progress
Done == pc = "idle" /\ runs >= 1

\* what result() returns in the current state
Returned == RunnerResult(self_report)

Cases == 1..Len(tests)

\* positions of the trace that belong to case k
EventsOf(k) == {n \in DOMAIN trace : trace[n].case = k}

\* case k was attempted: one of its closures was called
Attempted(k) == EventsOf(k) # {}

\* case k yielded Fail: its test returned Err, or its test or a hook panicked
CaseFails(k) == \E n \in EventsOf(k) : trace[n].out \in {"Err", "Panic"}

\* case k yielded Pass: its test was called and returned Ok
CasePasses(k) ==
    \E n \in EventsOf(k) : trace[n].kind = "it" /\ trace[n].out = "Ok"

\* a before function panicked while case k was prepared
HookFaultIn(k) ==
    \E n \in EventsOf(k) : trace[n].kind = "before" /\ trace[n].out = "Panic"

FailingCases == {k \in Cases : CaseFails(k)}

FirstFailing == CHOOSE k \in FailingCases : \A m \in FailingCases : k <= m

\* number of calls of the test body of case k
TestCalls(k) ==
    Cardinality({n \in EventsOf(k) :
                   trace[n].kind = "it" /\ trace[n].fn = tests[k]})

\* number of calls of the h-th before function for case k
HookCalls(k, h) ==
    Cardinality({n \in EventsOf(k) :
                   trace[n].kind = "before" /\ trace[n].fn = before_each[h]})

\* C1: after a run in which some case fails or faults, result() is Err and
\* error_count is the number of cases registered after the first failing
\* case, not the number of failing cases.
C1_ErrorCountAfterFirstFailure ==
    (Done /\ FailingCases # {}) =>
        /\ Returned.status = "Err"
        /\ Returned.report.error_count = Len(tests) - FirstFailing

\* two cases failed, one of them on a panicking hook, yet error_count is 1
C1_Witness ==
    /\ Done
    /\ Cardinality(FailingCases) = 2
    /\ \E k \in Cases : HookFaultIn(k)
    /\ Returned.status = "Err"
    /\ Returned.report.error_count = 1

\* C2: after a run, success_count is the position of the first failing
\* case, or the total when no case fails; with at least one case it is at
\* least 1 even when the first case fails.
C2_SuccessCountUpToFirstFailure ==
    Done =>
        /\ Returned.report.success_count =
              IF FailingCases = {} THEN Returned.report.total_tests
                                   ELSE FirstFailing
        /\ Len(tests) >= 1 => Returned.report.success_count >= 1

\* the first of two cases failed and success_count is 1
C2_Witness ==
    /\ Done
    /\ Len(tests) = 2
    /\ CaseFails(1)
    /\ Returned.report.success_count = 1

\* C3: after a run in which every case passes, result() is Ok with
\* success_count = total_tests and error_count = 0.
C3_AllPass ==
    (Done /\ \A k \in Cases : CasePasses(k)) =>
        /\ Returned.status = "Ok"
        /\ Returned.report.success_count = Returned.report.total_tests
        /\ Returned.report.error_count = 0

\* two cases and two hooks, everything passed
C3_Witness ==
    /\ Done
    /\ Len(tests) = 2
    /\ Len(before_each) = 2
    /\ \A k \in Cases : CasePasses(k)
    /\ Returned = [status |-> "Ok",
                   report |-> [total_tests |-> 2, success_count |-> 2,
                               error_count |-> 0]]
\* positions of the trace at which a test body was called
ItEvents == {n \in DOMAIN trace : trace[n].kind = "it"}

\* the cases registered after case k
After(k) == (k + 1)..Len(tests)

\* C4 as stated: a failing or faulting case never stops the run; every case
\* registered after it is attempted and the test body of each is invoked.
C4_LaterBodiesAlwaysInvoked ==
    Done =>
        \A k \in FailingCases :
            /\ Cardinality({m \in After(k) : Attempted(m)}) = Len(tests) - k
            /\ \A m \in After(k) : TestCalls(m) >= 1

\* C4 amended: a failing or faulting case never stops the run; every case
\* registered after it is attempted, and the test body of each is invoked
\* unless a before function panics while that later case is prepared.
C4_LaterCasesAttempted ==
    /\ pc = "store" => i = Len(tests) + 1
    /\ Done =>
         \A k \in FailingCases :
            /\ Cardinality({m \in After(k) : Attempted(m)}) = Len(tests) - k
            /\ \A m \in After(k) : ~HookFaultIn(m) => TestCalls(m) >= 1

\* the first case panicked in its test body and the second body still ran
C4_Witness ==
    /\ Done
    /\ Len(tests) = 2
    /\ \E n \in EventsOf(1) : trace[n].kind = "it" /\ trace[n].out = "Panic"
    /\ TestCalls(2) = 1

\* C5 as stated: in one run every test body is invoked exactly once, in
\* registration order, whatever the tests and hooks do.
C5_EveryBodyExactlyOnce ==
    /\ \A n, m \in ItEvents : n < m => trace[n].case < trace[m].case
    /\ Done => \A k \in Cases : TestCalls(k) = 1

\* C5 amended: in one run the test bodies are invoked in registration order
\* and none more than once; the body of a case is invoked exactly once
\* unless a before function panics while that case is prepared, and then it
\* is not invoked.
C5_BodiesInOrderAtMostOnce ==
    /\ \A n \in ItEvents : trace[n].fn = tests[trace[n].case]
    /\ \A n, m \in ItEvents : n < m => trace[n].case < trace[m].case
    /\ \A k \in Cases : TestCalls(k) <= 1
    /\ Done => \A k \in Cases :
                  TestCalls(k) = IF HookFaultIn(k) THEN 0 ELSE 1

\* a hook panicked for the first case, whose body was skipped, and the
\* second body then ran once
C5_Witness ==
    /\ Done
    /\ Len(tests) = 2
    /\ HookFaultIn(1)
    /\ TestCalls(1) = 0
    /\ TestCalls(2) = 1

\* positions of the trace at which a before function was called
BeforeEvents == {n \in DOMAIN trace : trace[n].kind = "before"}

\* position in before_each of the function called at trace position n
HookPos(n) == CHOOSE h \in DOMAIN before_each : before_each[h] = trace[n].fn

\* a before function ahead of the h-th one panicked for case k
EarlierHookFault(k, h) ==
    \E n \in EventsOf(k) :
        /\ trace[n].kind = "before"
        /\ trace[n].out = "Panic"
        /\ HookPos(n) < h

\* C6 as stated: in one run every before function is invoked exactly once
\* per test case, for every case, in registration order.
C6_EveryHookOncePerCase ==
    Done => \A k \in Cases : \A h \in DOMAIN before_each : HookCalls(k, h) = 1

\* C6 amended: for each case the before functions are invoked in
\* registration order starting from the first, each at most once, up to and
\* including the first one that panics; a before function is invoked exactly
\* once for every case in which no earlier before function panics, so with
\* no panicking hook each of H hooks is invoked exactly T times over T cases.
C6_HooksOncePerCaseUntilFault ==
    /\ \A n, m \in BeforeEvents :
          (n < m /\ trace[n].case = trace[m].case) => HookPos(n) < HookPos(m)
    /\ \A n, m \in BeforeEvents : n < m => trace[n].case <= trace[m].case
    /\ Done => \A k \in Cases : \A h \in DOMAIN before_each :
                  HookCalls(k, h) = IF EarlierHookFault(k, h) THEN 0 ELSE 1

\* two hooks and two cases, the first case failing: each hook ran twice
C6_Witness ==
    /\ Done
    /\ Len(tests) = 2
    /\ Len(before_each) = 2
    /\ CaseFails(1)
    /\ \A h \in DOMAIN before_each :
          Cardinality({n \in BeforeEvents : HookPos(n) = h}) = 2
\* the closures held by the Context
Registered == {tests[k] : k \in DOMAIN tests}
                 \cup {before_each[h] : h \in DOMAIN before_each}

\* the groups p and q are siblings or lie in different branches
Apart(p, q) == ~IsPrefix(p, q) /\ ~IsPrefix(q, p)

\* the test body called at trace position n ran after the before function f
\* had been called for the same case
HookRanBefore(f, n) ==
    \E m \in BeforeEvents :
        m < n /\ trace[m].fn = f /\ trace[m].case = trace[n].case

\* C7: flat namespace. Every closure registered at any nesting depth is
\* held by the one root Context, and every test body that runs has been
\* preceded, for its case, by every registered before function, whatever
\* the groups in which either was registered and whichever came first.
C7_FlatNamespace ==
    /\ Registered = DOMAIN site
    /\ \A n \in ItEvents : \A h \in DOMAIN before_each :
          HookRanBefore(before_each[h], n)

\* a hook registered inside a group ran ahead of the body of a test that
\* was registered before it, in a sibling group
C7_Witness ==
    /\ Done
    /\ \E h \in DOMAIN before_each : \E a \in ItEvents :
          /\ site[before_each[h]] # << >>
          /\ trace[a].fn < before_each[h]
          /\ Apart(site[trace[a].fn], site[before_each[h]])
          /\ HookRanBefore(before_each[h], a)

\* C8: after a run, total_tests is the number of registered test cases,
\* whatever the cases and hooks did.
C8_TotalIsRegistered ==
    Done => Returned.report.total_tests = Len(tests)

\* a hook panicked for one case, the test of the other returned Err, total 2
C8_Witness ==
    /\ Done
    /\ Len(tests) = 2
    /\ \E k \in Cases : HookFaultIn(k)
    /\ \E n \in ItEvents : trace[n].out = "Err"
    /\ Returned.report.total_tests = 2

\* C9: run() returns Ok(()) whatever the tests and hooks do; no panic leaves
\* it, and the verdict is read through result() only.
C9_RunReturnsOk ==
    /\ run_ret \in {"none", "Ok"}
    /\ Done => run_ret = "Ok"

\* a test panicked, the report is Err and run() returned Ok
C9_Witness ==
    /\ Done
    /\ \E n \in ItEvents : trace[n].out = "Panic"
    /\ Returned.status = "Err"
    /\ run_ret = "Ok"

\* C10: as long as run() has not been called, result() returns the all-zero
\* report with status Ok, whatever has been registered.
C10_ResultBeforeRun ==
    runs = 0 =>
        /\ self_report = None
        /\ observed # None =>
              observed = Some([status |-> "Ok", report |-> TestReportDefault])

\* result() was called on a Runner holding tests and hooks that never ran
C10_Witness ==
    /\ runs = 0
    /\ Len(tests) = 2
    /\ Len(before_each) >= 1
    /\ observed # None
    /\ observed[1].report.total_tests = 0
\* the report the algorithm yields for the cases recorded in trace alone
ReportOfTrace ==
    [status |-> IF FailingCases = {} THEN "Ok" ELSE "Err",
     report |->
        [total_tests   |-> Len(tests),
         success_count |-> IF FailingCases = {} THEN Len(tests)
                                                ELSE FirstFailing,
         error_count   |-> IF FailingCases = {} THEN 0
                                                ELSE Len(tests) - FirstFailing]]

\* C11: run() may be called again; after any number of runs result() is the
\* report of the most recent run alone, counted from zero, and when every
\* case has the verdict it had in the run before, the report equals the
\* report of the run before.
C11_LastRunOnly ==
    Done =>
        /\ Returned = ReportOfTrace
        /\ (prev # None /\ prev[1].verdicts = Verdicts) =>
              Returned = prev[1].report

\* a second run repeated the verdicts of the first, one case failing, and
\* the report is the same with total_tests 2, not 4
C11_Witness ==
    /\ Done
    /\ runs = 2
    /\ Len(tests) = 2
    /\ prev # None
    /\ prev[1].verdicts = Verdicts
    /\ CaseFails(2)
    /\ Returned = prev[1].report
    /\ Returned.report.total_tests = 2
\* C12: after a run with no registered test case, whatever the number of
\* registered before functions, result() is the all-zero report with status
\* Ok, and no closure has been called.
C12_EmptyRun ==
    (Done /\ Len(tests) = 0) =>
        /\ Returned = [status |-> "Ok", report |-> TestReportDefault]
        /\ trace = << >>

\* a Runner holding two before functions and no test has been run
C12_Witness ==
    /\ Done
    /\ Len(tests) = 0
    /\ Len(before_each) = 2
    /\ self_report = Some([status |-> "Ok", report |-> TestReportDefault])
\* positions of the trace at which a before function panicked
HookFaults ==
    {n \in BeforeEvents : trace[n].out = "Panic"}

\* C13: a before function that panics ends its case there: no later hook
\* and no test body is called for that case, the case counts as failed, and
\* the next case, if any, starts again with the first before function.
C13_HookFaultEndsCase ==
    \A n \in HookFaults :
        /\ \A m \in EventsOf(trace[n].case) : m <= n
        /\ IF pc = "catch" /\ i = trace[n].case
             THEN res = "Panic" /\ MatchRes(res) = "Err"
             ELSE result = "Err"
        /\ n < Len(trace) =>
              /\ trace[n + 1].kind = "before"
              /\ trace[n + 1].fn = before_each[1]
              /\ trace[n + 1].case = trace[n].case + 1
        /\ Done => \A k \in After(trace[n].case) : Attempted(k)

\* the first of two hooks panicked for the first case; the second case
\* started with the first hook again and its test body ran
C13_Witness ==
    /\ Done
    /\ Len(tests) = 2
    /\ Len(before_each) = 2
    /\ 1 \in HookFaults
    /\ trace[1].fn = before_each[1]
    /\ trace[2].case = 2
    /\ trace[2].fn = before_each[1]
    /\ TestCalls(1) = 0
    /\ TestCalls(2) = 1
    /\ Returned.status = "Err"
\* calls of the h-th before function for the case of trace position n that
\* returned ahead of position n
ReturnedAhead(h, n) ==
    {m \in BeforeEvents :
        /\ m < n
        /\ trace[m].case = trace[n].case
        /\ trace[m].fn = before_each[h]
        /\ trace[m].out = "Return"}

\* C14: a test body is called only after every registered before function
\* has been called, and has returned, for its case; the calls of one case
\* are contiguous in the run, the test body being the last of them, so
\* nothing of the next case is called before the test body has finished.
C14_HooksThenTestPerCase ==
    /\ \A n \in ItEvents : \A h \in DOMAIN before_each :
          Cardinality(ReturnedAhead(h, n)) = 1
    /\ \A n \in ItEvents : \A m \in EventsOf(trace[n].case) : m <= n
    /\ \A n, m \in DOMAIN trace : n < m => trace[n].case <= trace[m].case

\* two hooks and two cases ran to the end as hook, hook, test, hook, hook,
\* test
C14_Witness ==
    /\ Done
    /\ Len(tests) = 2
    /\ Len(before_each) = 2
    /\ Len(trace) = 6
    /\ ItEvents = {3, 6}
    /\ trace[4].case = 2
\* the closures that the first n it and before calls push onto the vector
\* of the given kind when they are all made on the root Context directly
RECURSIVE PushedDirectly(_, _)
PushedDirectly(kind, n) ==
    IF n = 0 THEN << >>
    ELSE IF calls[n] = kind THEN Append(PushedDirectly(kind, n - 1), n)
                            ELSE PushedDirectly(kind, n - 1)

\* C15: Context::describe has no effect on the two sequences: whatever the
\* nesting of groups through which the it and before calls were made, tests
\* and before_each are the sequences the same calls in the same textual
\* order give on the root Context, and the report is the one of that flat
\* sequence.
C15_GroupsLeaveSequencesAlone ==
    /\ tests = PushedDirectly("it", Len(calls))
    /\ before_each = PushedDirectly("before", Len(calls))
    /\ Done => Returned = ReportOfTrace

\* a test and a hook, one registered at nesting depth two and the other on
\* the root, have been run
C15_Witness ==
    /\ Done
    /\ nGroups = 2
    /\ \E k \in DOMAIN site : Len(site[k]) = 2
    /\ \E k \in DOMAIN site : site[k] = << >>
    /\ Len(tests) = 1
    /\ Len(before_each) = 1
    /\ tests = PushedDirectly("it", 2)
\* the failing cases that the loop has already folded into result
FoldedFailing ==
    {k \in FailingCases : pc \in {"store", "idle"} \/ k < i}

\* C16: during a run the accumulated result starts Ok, is Err exactly from
\* the moment the first failing case has been processed, and never returns
\* to Ok before the run ends; the stored status is Err if and only if some
\* case failed or faulted.
C16_ResultMonotone ==
    /\ [](result = "Err" <=> FoldedFailing # {})
    /\ [][(result = "Err" /\ pc # "idle") => result' = "Err"]_vars
    /\ [](Done => (Returned.status = "Err" <=> FailingCases # {}))

\* the first case failed, the second passed, and the status stayed Err
C16_Witness ==
    /\ Done
    /\ Len(tests) = 2
    /\ CaseFails(1)
    /\ CasePasses(2)
    /\ result = "Err"
    /\ Returned.status = "Err"
\* C17: registration runs entirely before execution. While the root body
\* runs, and until run() is called, no closure has been called and the
\* Runner holds no report; describe returns only once every nested body has
\* returned, the root body is never entered again, nothing is registered
\* afterwards, and closures are called from inside run() only.
C17_RegistrationBeforeExecution ==
    /\ []((pc = "registering" \/ runs = 0) =>
             (trace = << >> /\ self_report = None /\ runs = 0))
    /\ [](pc # "registering" => stack = << >>)
    /\ [][pc # "registering" =>
             (pc' # "registering" /\ UNCHANGED <<tests, before_each, calls>>)]_vars
    /\ [][(trace' # trace /\ trace' # << >>) =>
             (pc = "closure" /\ runs >= 1)]_vars

\* registration through a group is over and the first closure of the
\* first run has just been called
C17_Witness ==
    /\ runs = 1
    /\ pc \in {"closure", "catch"}
    /\ Len(trace) = 1
    /\ nGroups = 1
    /\ Len(tests) = 2
    /\ Len(before_each) = 1
\* C18: run() and result() leave the two sequences of the Context as they
\* were when describe returned, in length and in order, and a result() call
\* changes nothing of the Runner or of the Context.
C18_SequencesFrozen ==
    /\ [][pc # "registering" => UNCHANGED <<tests, before_each>>]_vars
    /\ [][(pc = "idle" /\ pc' = "idle") =>
             UNCHANGED <<tests, before_each, self_report, report, result,
                         trace, run_ret, runs>>]_vars

\* after two runs and a result() call the Context still holds its two
\* tests and two hooks in push order
C18_Witness ==
    /\ Done
    /\ runs = 2
    /\ observed # None
    /\ Len(tests) = 2
    /\ Len(before_each) = 2
    /\ tests = PushedDirectly("it", Len(calls))
    /\ before_each = PushedDirectly("before", Len(calls))
\* the counters of a TestReport add up
AddsUp(rep) == rep.total_tests = rep.success_count + rep.error_count

\* C19: the counters add up, total_tests = success_count + error_count,
\* after every processed case and in every report result() returns; each
\* processed case adds one to total_tests and one to exactly one of
\* success_count and error_count; a positive error_count comes with Err.
C19_CountersAddUp ==
    /\ [](AddsUp(report) /\ AddsUp(Returned.report))
    /\ [](pc \in {"iter", "closure", "catch"} => report.total_tests = i - 1)
    /\ [][pc = "catch" =>
            /\ report'.total_tests = report.total_tests + 1
            /\ \/ /\ report'.success_count = report.success_count + 1
                  /\ report'.error_count = report.error_count
               \/ /\ report'.success_count = report.success_count
                  /\ report'.error_count = report.error_count + 1]_vars
    /\ [](report.error_count > 0 => result = "Err")
    /\ [](Returned.report.error_count > 0 => Returned.status = "Err")

\* two cases, the first failing: the report is (2, 1, 1) with status Err
C19_Witness ==
    /\ Done
    /\ CaseFails(1)
    /\ observed = Some([status |-> "Err",
                        report |-> [total_tests |-> 2, success_count |-> 1,
                                    error_count |-> 1]])
====
